---- MODULE Spec2Model ----
(***************************************************************************)
(* Model of example_text_to_image.py: a client of the Fooocus HTTP API.    *)
(*                                                                         *)
(*   text_to_image     POST /v1/generation/text-to-image, returns the JSON *)
(*   check_job_status  GET  /v1/generation/query-job,     returns the JSON *)
(*   main              submit, create outputs/, poll once, download each   *)
(*                                                                         *)
(* Python values are modelled as follows.  A dict is a function whose      *)
(* DOMAIN is the set of keys present; dict.get(k) is a sequence of length  *)
(* 0 (key absent, None) or 1 (the value).  A list is a sequence.  A call   *)
(* argument is a record [kind, val]: kind "omitted" (the parameter default *)
(* applies), "None", or "value".  A file name is the sequence of the       *)
(* pieces the f-string concatenates.  The server and the clock are the     *)
(* environment: every response and every reading of the clock is chosen    *)
(* from a small set.  Answers of the two API endpoints are JSON objects    *)
(* (dicts) or fail to arrive or to decode; os.makedirs, open and write     *)
(* succeed; outputs/ holds no file of the run's names beforehand.          *)
(***************************************************************************)
EXTENDS Integers, Sequences, FiniteSets, TLC

VARIABLES
    pc,            \* position of the running code
    args,          \* arguments of the most recent call of an API function
    requests,      \* HTTP requests issued so far, in order
    received,      \* JSON bodies the two API endpoints answered, in order
    response,      \* main: `response` (line 74); <<>> while unassigned
    job_status,    \* main: `job_status` (line 87); <<>> while unassigned
    idx,           \* main: loop variable of enumerate (line 95)
    downloads,     \* image responses received so far, in order
    outputsExists, \* whether the directory outputs/ exists
    mkdirs,        \* number of calls of os.makedirs
    files,         \* files written under outputs/: name -> content
    writes,        \* file writes so far, in order
    out,           \* lines printed so far
    exc            \* the exception that escaped, <<>> when none

vars == <<pc, args, requests, received, response, job_status, idx, downloads,
          outputsExists, mkdirs, files, writes, out, exc>>

----------------------------------------------------------------------------
(* Bounds of the environment *)

MaxResults == 2
MaxClock == 1

JobIds == {"j1", "j2"}
Urls == {"u1", "u2"}
Bodies == {"b1", "b2"}
Prompts == {"p1", "p2"}
NegativePrompts == {"", "n1"}
StyleLists == {<< >>, <<"Fooocus V2">>, <<"s1", "s2">>}
BadStatuses == {404}

----------------------------------------------------------------------------
(* Python helpers *)

Get(d, k) == IF k \in DOMAIN d THEN <<d[k]>> ELSE << >>

\* variant: `if "job_id" in response`
truthy_str_present(opt) == opt # << >>

truthy_str(opt) == opt # << >> /\ opt[1] # ""

truthy_list(opt) == opt # << >> /\ Len(opt[1]) > 0

Omitted == [kind |-> "omitted"]

DigitChars == <<"0", "1", "2", "3", "4", "5", "6", "7", "8", "9">>

RECURSIVE str(_)
str(n) == IF n < 10 THEN <<DigitChars[n + 1]>>
          ELSE str(n \div 10) \o <<DigitChars[(n % 10) + 1]>>

strftime(now) ==
    <<"20240101", "_", "1200">>
        \o <<DigitChars[(now \div 10) + 1], DigitChars[(now % 10) + 1]>>

----------------------------------------------------------------------------
(* Program constants *)

API_URL == "http://127.0.0.1:8888"

main_prompt == "A beautiful landscape with mountains, a lake, and a sunset"

main_negative_prompt == "ugly, blurry, low quality"

----------------------------------------------------------------------------
(* text_to_image *)

\* the parameter defaults of line 13
default_negative_prompt(a) == IF a.kind = "omitted" THEN "" ELSE a.val

default_style_selections(a) == IF a.kind = "omitted" THEN [kind |-> "None"] ELSE a

default_async_process(a) == IF a.kind = "omitted" THEN TRUE ELSE a.val

\* variant: `if not style_selections`
style_or_default_falsy(style_selections) ==
    IF style_selections.kind = "None" \/ style_selections.val = << >>
    THEN <<"Fooocus V2">>
    ELSE style_selections.val

\* lines 26-27: `if style_selections is None`
style_or_default(style_selections) ==
    IF style_selections.kind = "None" THEN <<"Fooocus V2">>
    ELSE style_selections.val

\* lines 29-41; sharpness 2.0 and guidance_scale 4.0 are written 2 and 4
text_to_image_params(prompt, negative_prompt, style_selections, async_process) ==
    [prompt |-> prompt,
     negative_prompt |-> default_negative_prompt(negative_prompt),
     style_selections |->
         style_or_default(default_style_selections(style_selections)),
     performance_selection |-> "Quality",
     aspect_ratios_selection |-> "1152*896",
     image_number |-> 1,
     image_seed |-> -1,
     sharpness |-> 2,
     guidance_scale |-> 4,
     async_process |-> default_async_process(async_process),
     save_extension |-> "png"]

\* lines 43-47
text_to_image_request(a) ==
    [method |-> "POST",
     url |-> <<API_URL, "/v1/generation/text-to-image">>,
     json |-> <<text_to_image_params(a.prompt, a.negative_prompt,
                                     a.style_selections, a.async_process)>>,
     params |-> << >>,
     headers |-> <<"Content-Type", "application/json">>]

----------------------------------------------------------------------------
(* check_job_status *)

\* variant: the parameter sent under another name
query_params_id(job_id) == [id |-> job_id]

\* line 63
query_params(job_id) == [job_id |-> job_id]

\* lines 61-64
check_job_status_request(job_id) ==
    [method |-> "GET",
     url |-> <<API_URL, "/v1/generation/query-job">>,
     json |-> << >>,
     params |-> <<query_params(job_id)>>,
     headers |-> << >>]

\* lines 49 and 66: `response.json()` of a body that is a JSON object, given
\* as the sequence of its members <<key, value>>: the dict of its keys, a
\* repeated key keeping its last value
response_json(body) ==
    LET keys == {body[i][1] : i \in DOMAIN body}
        last(k) == CHOOSE i \in DOMAIN body :
                       /\ body[i][1] = k
                       /\ \A j \in DOMAIN body : body[j][1] = k => j <= i
    IN  [k \in keys |-> body[last(k)][2]]

\* line 101
image_request(url) ==
    [method |-> "GET", url |-> <<url>>, json |-> << >>, params |-> << >>,
     headers |-> << >>]

----------------------------------------------------------------------------
(* The environment: what the server may answer *)

\* answers of POST /v1/generation/text-to-image
SubmitResponses ==
    {[job_type |-> "Text to Image"], [job_type |-> "Text to Image", job_id |-> ""]}
        \cup {[job_type |-> "Text to Image", job_id |-> j] : j \in JobIds}

\* entries of job_result
ImageResults ==
    {[seed |-> "7"], [url |-> "", seed |-> "7"], [url |-> "u1", seed |-> "7"],
     [url |-> "u2"]}

ResultLists == UNION {[1..n -> ImageResults] : n \in 0..MaxResults}

JobStages == {"PENDING", "RUNNING", "SUCCESS"}

\* answers of GET /v1/generation/query-job
PollResponses ==
    {[job_id |-> j] : j \in JobIds}
        \cup {[job_id |-> j, job_stage |-> s] : j \in JobIds, s \in JobStages}
        \cup {[job_id |-> j, job_stage |-> s, job_result |-> l] :
                  j \in {"j1"}, s \in JobStages, l \in ResultLists}

\* the server's serialisation of a JSON object
KeyOrder == <<"job_id", "job_type", "job_stage", "job_result">>

json_body(d) ==
    LET present(k) == k \in DOMAIN d
        ks == SelectSeq(KeyOrder, present)
    IN  [i \in 1..Len(ks) |-> <<ks[i], d[ks[i]]>>]

SubmitBodies ==
    {json_body(d) : d \in SubmitResponses}
        \cup {<<<<"job_id", "j1">>, <<"job_type", "Text to Image">>,
                <<"job_id", "j2">>>>}

PollBodies == {json_body(d) : d \in PollResponses}

ImageStatuses == {200} \cup BadStatuses

Failures == {"ConnectionError", "JSONDecodeError"}

\* the call main makes on line 74
main_call ==
    [fn |-> "text_to_image", prompt |-> main_prompt,
     negative_prompt |-> [kind |-> "value", val |-> main_negative_prompt],
     style_selections |-> Omitted, async_process |-> Omitted]

----------------------------------------------------------------------------
(* main *)

Init ==
    /\ pc = "submit"
    /\ args = main_call
    /\ requests = << >>
    /\ received = << >>
    /\ response = << >>
    /\ job_status = << >>
    /\ idx = 0
    /\ downloads = << >>
    /\ outputsExists \in BOOLEAN
    /\ mkdirs = 0
    /\ files = [n \in {} |-> ""]
    /\ writes = << >>
    /\ out = << >>
    /\ exc = << >>

\* variant: the position left out of the name
filename_no_idx(timestamp, i) ==
    <<"outputs/", "image_">> \o timestamp \o <<".png">>

\* line 104
filename(timestamp, i) ==
    <<"outputs/", "image_">> \o timestamp \o <<"_">> \o str(i) \o <<".png">>

\* variant: only PENDING counts as still processing
still_processing_pending(status) == Get(status, "job_stage") = <<"PENDING">>

\* line 90
still_processing(status) ==
    \/ Get(status, "job_stage") = <<"PENDING">>
    \/ Get(status, "job_stage") = <<"RUNNING">>

\* lines 73-76, the POST answered with a JSON object
SubmitOk ==
    /\ pc = "submit"
    /\ \E body \in SubmitBodies :
         /\ requests' = Append(requests, text_to_image_request(main_call))
         /\ received' = Append(received, body)
         /\ response' = <<response_json(body)>>
         /\ out' = out \o <<<<"Sending", main_prompt>>,
                            <<"json", response_json(body)>>>>
    /\ args' = main_call
    /\ pc' = "job_id"
    /\ UNCHANGED <<job_status, idx, downloads, outputsExists, mkdirs, files,
                   writes, exc>>

\* lines 73-74, requests.post or response.json raising
SubmitFail ==
    /\ pc = "submit"
    /\ \E e \in Failures : exc' = <<[at |-> "submit", error |-> e]>>
    /\ requests' = Append(requests, text_to_image_request(main_call))
    /\ out' = Append(out, <<"Sending", main_prompt>>)
    /\ args' = main_call
    /\ pc' = "failed"
    /\ UNCHANGED <<received, response, job_status, idx, downloads,
                   outputsExists, mkdirs, files, writes>>

\* line 78, the condition false: main returns
NoJobId ==
    /\ pc = "job_id"
    /\ ~truthy_str(Get(response[1], "job_id"))
    /\ pc' = "done"
    /\ UNCHANGED <<args, requests, received, response, job_status, idx,
                   downloads, outputsExists, mkdirs, files, writes, out, exc>>

\* variant: os.makedirs left out
MakeOutputs_skipped ==
    /\ pc = "job_id"
    /\ truthy_str(Get(response[1], "job_id"))
    /\ out' = out \o <<<<"Job ID", response[1]["job_id"]>>, <<"Checking">>>>
    /\ pc' = "poll"
    /\ UNCHANGED <<args, requests, received, response, job_status, idx,
                   downloads, outputsExists, mkdirs, files, writes, exc>>

\* lines 78-84
MakeOutputs ==
    /\ pc = "job_id"
    /\ truthy_str(Get(response[1], "job_id"))
    /\ out' = out \o <<<<"Job ID", response[1]["job_id"]>>, <<"Checking">>>>
    /\ outputsExists' = TRUE
    /\ mkdirs' = mkdirs + 1
    /\ pc' = "poll"
    /\ UNCHANGED <<args, requests, received, response, job_status, idx,
                   downloads, files, writes, exc>>

\* variant: a polling loop, the GET repeated while the job is processing
PollOk_loop ==
    /\ pc = "poll"
    /\ \E body \in PollBodies :
         LET job_id == response[1]["job_id"]
             status == response_json(body)
         IN  /\ args' = [fn |-> "check_job_status", job_id |-> job_id]
             /\ requests' = Append(requests, check_job_status_request(job_id))
             /\ received' = Append(received, body)
             /\ job_status' = <<status>>
             /\ out' = out \o <<<<"json", status>>>>
             /\ pc' = IF still_processing(status) THEN "poll" ELSE "job_result"
    /\ UNCHANGED <<response, idx, downloads, outputsExists, mkdirs, files,
                   writes, exc>>

\* lines 87-92, the GET answered with a JSON object
PollOk ==
    /\ pc = "poll"
    /\ \E body \in PollBodies :
         LET job_id == response[1]["job_id"]
             status == response_json(body)
         IN  /\ args' = [fn |-> "check_job_status", job_id |-> job_id]
             /\ requests' = Append(requests, check_job_status_request(job_id))
             /\ received' = Append(received, body)
             /\ job_status' = <<status>>
             /\ out' = out \o <<<<"json", status>>>>
                        \o (IF still_processing(status)
                            THEN <<<<"Job is still processing">>,
                                   <<"curl", API_URL,
                                     "/v1/generation/query-job?job_id=", job_id>>>>
                            ELSE << >>)
    /\ pc' = "job_result"
    /\ UNCHANGED <<response, idx, downloads, outputsExists, mkdirs, files,
                   writes, exc>>

\* line 87, requests.get or response.json raising
PollFail ==
    /\ pc = "poll"
    /\ \E e \in Failures : exc' = <<[at |-> "poll", error |-> e]>>
    /\ args' = [fn |-> "check_job_status", job_id |-> response[1]["job_id"]]
    /\ requests' = Append(requests,
                          check_job_status_request(response[1]["job_id"]))
    /\ pc' = "failed"
    /\ UNCHANGED <<received, response, job_status, idx, downloads,
                   outputsExists, mkdirs, files, writes, out>>

\* line 94, the condition false: main returns
NoResults ==
    /\ pc = "job_result"
    /\ ~truthy_list(Get(job_status[1], "job_result"))
    /\ pc' = "done"
    /\ UNCHANGED <<args, requests, received, response, job_status, idx,
                   downloads, outputsExists, mkdirs, files, writes, out, exc>>

\* lines 94-95, the loop is entered
BeginLoop ==
    /\ pc = "job_result"
    /\ truthy_list(Get(job_status[1], "job_result"))
    /\ idx' = 0
    /\ pc' = "loop"
    /\ UNCHANGED <<args, requests, received, response, job_status, downloads,
                   outputsExists, mkdirs, files, writes, out, exc>>

\* the entry the loop is at (positions of a list count from 0)
result == job_status[1]["job_result"][idx + 1]

AtEntry == pc = "loop" /\ idx < Len(job_status[1]["job_result"])

\* line 96, the condition false: next entry
SkipEntry ==
    /\ AtEntry
    /\ ~truthy_str(Get(result, "url"))
    /\ idx' = idx + 1
    /\ UNCHANGED <<pc, args, requests, received, response, job_status,
                   downloads, outputsExists, mkdirs, files, writes, out, exc>>

\* lines 97-98
print_result ==
    <<<<"Image URL", result["url"]>>,
      <<"Seed", IF Get(result, "seed") = << >> THEN "N/A"
                ELSE result["seed"]>>>>

\* variant: the failure caught and the entry skipped
DownloadFail_caught ==
    /\ AtEntry
    /\ truthy_str(Get(result, "url"))
    /\ requests' = Append(requests, image_request(result["url"]))
    /\ downloads' = Append(downloads,
                           [idx |-> idx, raised |-> TRUE, status_code |-> 0,
                            content |-> ""])
    /\ out' = out \o print_result
    /\ idx' = idx + 1
    /\ UNCHANGED <<pc, args, received, response, job_status, outputsExists,
                   mkdirs, files, writes, exc>>

\* lines 96-101, requests.get raising
DownloadFail ==
    /\ AtEntry
    /\ truthy_str(Get(result, "url"))
    /\ requests' = Append(requests, image_request(result["url"]))
    /\ downloads' = Append(downloads,
                           [idx |-> idx, raised |-> TRUE, status_code |-> 0,
                            content |-> ""])
    /\ out' = out \o print_result
    /\ exc' = <<[at |-> "download", error |-> "ConnectionError"]>>
    /\ pc' = "failed"
    /\ UNCHANGED <<args, received, response, job_status, idx, outputsExists,
                   mkdirs, files, writes>>

\* variant: the status not tested, the body written whatever it is
DownloadNon200_saved ==
    /\ AtEntry
    /\ truthy_str(Get(result, "url"))
    /\ \E status_code \in BadStatuses, content \in Bodies, now \in 0..MaxClock :
         LET name == filename(strftime(now), idx)
         IN  /\ downloads' = Append(downloads,
                                    [idx |-> idx, raised |-> FALSE,
                                     status_code |-> status_code,
                                     content |-> content])
             /\ files' = [n \in DOMAIN files \cup {name} |->
                              IF n = name THEN content ELSE files[n]]
             /\ writes' = Append(writes,
                                 [idx |-> idx, name |-> name,
                                  content |-> content])
             /\ out' = out \o print_result \o <<<<"Image saved to", name>>>>
    /\ requests' = Append(requests, image_request(result["url"]))
    /\ idx' = idx + 1
    /\ UNCHANGED <<pc, args, received, response, job_status, outputsExists,
                   mkdirs, exc>>

\* lines 96-102, the status is not 200: next entry
DownloadNon200 ==
    /\ AtEntry
    /\ truthy_str(Get(result, "url"))
    /\ \E status_code \in BadStatuses, content \in Bodies :
         downloads' = Append(downloads,
                             [idx |-> idx, raised |-> FALSE,
                              status_code |-> status_code, content |-> content])
    /\ requests' = Append(requests, image_request(result["url"]))
    /\ out' = out \o print_result
    /\ idx' = idx + 1
    /\ UNCHANGED <<pc, args, received, response, job_status, outputsExists,
                   mkdirs, files, writes, exc>>

\* variant: the file opened and nothing written to it
DownloadSave_empty ==
    /\ AtEntry
    /\ truthy_str(Get(result, "url"))
    /\ \E content \in Bodies, now \in 0..MaxClock :
         LET name == filename(strftime(now), idx)
         IN  /\ downloads' = Append(downloads,
                                    [idx |-> idx, raised |-> FALSE,
                                     status_code |-> 200, content |-> content])
             /\ files' = [n \in DOMAIN files \cup {name} |->
                              IF n = name THEN "" ELSE files[n]]
             /\ writes' = Append(writes,
                                 [idx |-> idx, name |-> name, content |-> ""])
             /\ out' = out \o print_result \o <<<<"Image saved to", name>>>>
    /\ requests' = Append(requests, image_request(result["url"]))
    /\ idx' = idx + 1
    /\ UNCHANGED <<pc, args, received, response, job_status, outputsExists,
                   mkdirs, exc>>

\* lines 96-107, the status is 200: the file is written, next entry
DownloadSave ==
    /\ AtEntry
    /\ truthy_str(Get(result, "url"))
    /\ \E content \in Bodies, now \in 0..MaxClock :
         LET name == filename(strftime(now), idx)
         IN  /\ downloads' = Append(downloads,
                                    [idx |-> idx, raised |-> FALSE,
                                     status_code |-> 200, content |-> content])
             /\ files' = [n \in DOMAIN files \cup {name} |->
                              IF n = name THEN content ELSE files[n]]
             /\ writes' = Append(writes,
                                 [idx |-> idx, name |-> name,
                                  content |-> content])
             /\ out' = out \o print_result \o <<<<"Image saved to", name>>>>
    /\ requests' = Append(requests, image_request(result["url"]))
    /\ idx' = idx + 1
    /\ UNCHANGED <<pc, args, received, response, job_status, outputsExists,
                   mkdirs, exc>>

\* line 95, the list is exhausted: main returns
EndLoop ==
    /\ pc = "loop"
    /\ idx = Len(job_status[1]["job_result"])
    /\ pc' = "done"
    /\ UNCHANGED <<args, requests, received, response, job_status, idx,
                   downloads, outputsExists, mkdirs, files, writes, out, exc>>

Next ==
    \/ SubmitOk
    \/ SubmitFail
    \/ NoJobId
    \/ MakeOutputs
    \/ PollOk
    \/ PollFail
    \/ NoResults
    \/ BeginLoop
    \/ SkipEntry
    \/ DownloadFail
    \/ DownloadNon200
    \/ DownloadSave
    \/ EndLoop

Spec == Init /\ [][Next]_vars

----------------------------------------------------------------------------
(* The two API functions called on their own, with any arguments *)

NegativeArgs == {Omitted} \cup {[kind |-> "value", val |-> n] : n \in NegativePrompts}

StyleArgs ==
    {Omitted, [kind |-> "None"]} \cup {[kind |-> "value", val |-> l] : l \in StyleLists}

AsyncArgs == {Omitted} \cup {[kind |-> "value", val |-> b] : b \in BOOLEAN}

ApiCalls ==
    {[fn |-> "text_to_image", prompt |-> p, negative_prompt |-> n,
      style_selections |-> s, async_process |-> a] :
         p \in Prompts, n \in NegativeArgs, s \in StyleArgs, a \in AsyncArgs}
        \cup {[fn |-> "check_job_status", job_id |-> j] : j \in JobIds \cup {""}}

ApiInit ==
    /\ pc = "call"
    /\ args \in ApiCalls
    /\ requests = << >>
    /\ received = << >>
    /\ response = << >>
    /\ job_status = << >>
    /\ idx = 0
    /\ downloads = << >>
    /\ outputsExists \in BOOLEAN
    /\ mkdirs = 0
    /\ files = [n \in {} |-> ""]
    /\ writes = << >>
    /\ out = << >>
    /\ exc = << >>

\* lines 13-49, the POST answered with a JSON object; the value returned is
\* kept in response
text_to_image ==
    /\ pc = "call"
    /\ args.fn = "text_to_image"
    /\ requests' = Append(requests, text_to_image_request(args))
    /\ \E body \in SubmitBodies :
         /\ received' = Append(received, body)
         /\ response' = <<response_json(body)>>
    /\ pc' = "returned"
    /\ UNCHANGED <<args, job_status, idx, downloads, outputsExists, mkdirs,
                   files, writes, out, exc>>

\* lines 43-49, requests.post or response.json raising
text_to_image_raises ==
    /\ pc = "call"
    /\ args.fn = "text_to_image"
    /\ requests' = Append(requests, text_to_image_request(args))
    /\ \E e \in Failures : exc' = <<[at |-> "text_to_image", error |-> e]>>
    /\ pc' = "raised"
    /\ UNCHANGED <<args, received, response, job_status, idx, downloads,
                   outputsExists, mkdirs, files, writes, out>>

\* lines 51-66, the GET answered with a JSON object; the value returned is
\* kept in job_status
check_job_status ==
    /\ pc = "call"
    /\ args.fn = "check_job_status"
    /\ requests' = Append(requests, check_job_status_request(args.job_id))
    /\ \E body \in PollBodies :
         /\ received' = Append(received, body)
         /\ job_status' = <<response_json(body)>>
    /\ pc' = "returned"
    /\ UNCHANGED <<args, response, idx, downloads, outputsExists, mkdirs,
                   files, writes, out, exc>>

\* lines 61-66, requests.get or response.json raising
check_job_status_raises ==
    /\ pc = "call"
    /\ args.fn = "check_job_status"
    /\ requests' = Append(requests, check_job_status_request(args.job_id))
    /\ \E e \in Failures : exc' = <<[at |-> "check_job_status", error |-> e]>>
    /\ pc' = "raised"
    /\ UNCHANGED <<args, received, response, job_status, idx, downloads,
                   outputsExists, mkdirs, files, writes, out>>

ApiNext ==
    \/ text_to_image
    \/ text_to_image_raises
    \/ check_job_status
    \/ check_job_status_raises

ApiSpec == ApiInit /\ [][ApiNext]_vars

----------------------------------------------------------------------------
(* The module as a whole: run as a script, or its functions called *)

ModuleInit == Init \/ ApiInit

ModuleNext == Next \/ ApiNext

ModuleSpec == ModuleInit /\ [][ModuleNext]_vars

----------------------------------------------------------------------------
(* Vocabulary of the properties *)

IsSubmit(r) == r.method = "POST" /\ r.url = <<API_URL, "/v1/generation/text-to-image">>

IsPoll(r) == r.method = "GET" /\ r.url = <<API_URL, "/v1/generation/query-job">>

IsImage(r) == r.method = "GET" /\ Len(r.url) = 1

NumSubmit == Cardinality({i \in DOMAIN requests : IsSubmit(requests[i])})

NumPoll == Cardinality({i \in DOMAIN requests : IsPoll(requests[i])})

NumImage == Cardinality({i \in DOMAIN requests : IsImage(requests[i])})

\* the dict d has the key k with a value other than "" (a string) or [] (a
\* list)
NonEmptyStr(d, k) == k \in DOMAIN d /\ d[k] # ""

NonEmptyList(d, k) == k \in DOMAIN d /\ Len(d[k]) > 0

HasJobId == response # << >> /\ NonEmptyStr(response[1], "job_id")

HasResults == job_status # << >> /\ NonEmptyList(job_status[1], "job_result")

Contains(s, sub) ==
    \E k \in 0..(Len(s) - Len(sub)) : SubSeq(s, k + 1, k + Len(sub)) = sub

\* the name ends with _<i>.png
IndexField(name, i) ==
    LET d == str(i)
    IN  /\ Len(name) >= Len(d) + 2
        /\ name[Len(name)] = ".png"
        /\ SubSeq(name, Len(name) - Len(d), Len(name) - 1) = d
        /\ name[Len(name) - Len(d) - 1] = "_"

WritesFor(i) == {w \in DOMAIN writes : writes[w].idx = i}

Answered(d) == ~downloads[d].raised

\* the step just taken received the answer of an image GET, with a status
\* other than 200
Non200Step ==
    /\ Len(downloads') = Len(downloads) + 1
    /\ ~downloads'[Len(downloads')].raised
    /\ downloads'[Len(downloads')].status_code # 200

----------------------------------------------------------------------------
(* C1: in the download step, an entry whose image GET is answered with a    *)
(* status other than 200 gets no file, no exception escapes, and the loop  *)
(* goes on to the next entry.                                              *)

C1_Non200Skipped ==
    /\ [][Non200Step =>
            /\ writes' = writes
            /\ files' = files
            /\ exc' = << >>
            /\ pc' = "loop"
            /\ idx' = idx + 1]_vars
    /\ [](\A d \in DOMAIN downloads :
            (Answered(d) /\ downloads[d].status_code # 200) =>
                /\ WritesFor(downloads[d].idx) = {}
                /\ idx > downloads[d].idx
                /\ (exc # << >> => d # Len(downloads)))

\* a non-200 entry at position 0 and a file written for position 1
C1_Witness ==
    /\ Len(downloads) = 2
    /\ downloads[1].status_code = 404
    /\ downloads[1].idx = 0
    /\ WritesFor(1) # {}

----------------------------------------------------------------------------
(* C2: an entry at position idx with a non-empty url whose image GET is    *)
(* answered with status 200 gets exactly one file, under outputs/, whose   *)
(* name contains idx and whose content is the body of the answer.          *)

C2_SavedOnce ==
    \A d \in DOMAIN downloads :
        (Answered(d) /\ downloads[d].status_code = 200) =>
            LET i == downloads[d].idx
            IN  /\ NonEmptyStr(job_status[1]["job_result"][i + 1], "url")
                /\ Cardinality(WritesFor(i)) = 1
                /\ \A w \in WritesFor(i) :
                     /\ writes[w].name[1] = "outputs/"
                     /\ Contains(writes[w].name, str(i))
                     /\ IndexField(writes[w].name, i)
                     /\ writes[w].content = downloads[d].content
                     /\ writes[w].name \in DOMAIN files
                     /\ files[writes[w].name] = downloads[d].content

\* two entries saved within the same second, with different bodies
C2_Witness ==
    /\ pc = "done"
    /\ Len(writes) = 2
    /\ writes[1].content # writes[2].content
    /\ SubSeq(writes[1].name, 1, 7) = SubSeq(writes[2].name, 1, 7)
    /\ writes[2].idx = 1

----------------------------------------------------------------------------
(* C3: when submit returns a job_id and the poll returns SUCCESS with a    *)
(* job_result list, a run that ends without an exception leaves as many    *)
(* files as there are entries with a non-empty url and a 200 answer: no    *)
(* two entries write the same name, nothing else is written.               *)

GoodEntries ==
    {i \in 0..(Len(job_status[1]["job_result"]) - 1) :
        /\ NonEmptyStr(job_status[1]["job_result"][i + 1], "url")
        /\ \E d \in DOMAIN downloads :
             /\ downloads[d].idx = i
             /\ Answered(d)
             /\ downloads[d].status_code = 200}

C3_OneFilePerResult ==
    (/\ pc = "done"
     /\ HasJobId
     /\ job_status # << >>
     /\ Get(job_status[1], "job_stage") = <<"SUCCESS">>
     /\ Get(job_status[1], "job_result") # << >>) =>
        /\ Cardinality(DOMAIN files) = Cardinality(GoodEntries)
        /\ Len(writes) = Cardinality(GoodEntries)
        /\ \A w \in DOMAIN writes : writes[w].idx \in GoodEntries
        /\ \A v, w \in DOMAIN writes :
             writes[v].name = writes[w].name => v = w

\* a finished run with two good entries saved within the same second
C3_Witness ==
    /\ pc = "done"
    /\ job_status # << >>
    /\ Get(job_status[1], "job_stage") = <<"SUCCESS">>
    /\ Cardinality(DOMAIN files) = 2
    /\ \E v, w \in DOMAIN writes :
         /\ v # w
         /\ SubSeq(writes[v].name, 1, 7) = SubSeq(writes[w].name, 1, 7)

----------------------------------------------------------------------------
(* C4: in a run of main the job-status endpoint is queried at most once    *)
(* and the generation endpoint is posted to exactly once, whatever the     *)
(* answers; no request is repeated.                                        *)

C4_NoRepeat ==
    /\ NumSubmit <= 1
    /\ NumPoll <= 1
    /\ (pc # "submit" => NumSubmit = 1)
    /\ NumImage = Len(downloads)
    /\ \A d, e \in DOMAIN downloads :
         downloads[d].idx = downloads[e].idx => d = e

\* a finished run whose poll said PENDING and whose download was refused
C4_Witness ==
    /\ pc = "done"
    /\ job_status # << >>
    /\ Get(job_status[1], "job_stage") = <<"PENDING">>
    /\ \E d \in DOMAIN downloads : downloads[d].status_code = 404
    /\ NumPoll = 1
    /\ NumSubmit = 1

----------------------------------------------------------------------------
(* C5: main is sequential and gated: the POST is answered before the poll  *)
(* GET, the poll GET before any image GET; the poll needs a non-empty      *)
(* job_id in the submit answer, the downloads a non-empty job_result in    *)
(* the poll answer.  Without a job_id the run ends with no poll, no        *)
(* download, no directory creation and no file.                            *)

C5_Gated ==
    /\ \A i \in DOMAIN requests :
         /\ IsSubmit(requests[i]) <=> i = 1
         /\ IsPoll(requests[i]) => (i = 2 /\ Len(received) >= 1 /\ HasJobId)
         /\ IsImage(requests[i]) => (i >= 3 /\ Len(received) = 2 /\ HasResults)
    /\ (response # << >> /\ ~HasJobId) =>
         /\ pc \in {"job_id", "done"}
         /\ NumPoll = 0
         /\ NumImage = 0
         /\ mkdirs = 0
         /\ writes = << >>
         /\ DOMAIN files = {}

\* a run that ended on a submit answer whose job_id is the empty string
C5_Witness ==
    /\ pc = "done"
    /\ Get(response[1], "job_id") = <<"">>
    /\ Len(requests) = 1

----------------------------------------------------------------------------
(* C6: for every prompt, negative_prompt, style_selections and             *)
(* async_process, text_to_image sends one POST to                          *)
(* /v1/generation/text-to-image whose JSON body has exactly the fixed      *)
(* default fields plus the prompt, negative_prompt, style_selections and   *)
(* async_process provided, unchanged.                                      *)

BodyKeys ==
    {"prompt", "negative_prompt", "style_selections", "performance_selection",
     "aspect_ratios_selection", "image_number", "image_seed", "sharpness",
     "guidance_scale", "async_process", "save_extension"}

Called(fn) == pc # "call" /\ args.fn = fn

StyleNotGiven == args.style_selections.kind \in {"omitted", "None"}

\* what the claim says of every call, defaults left aside
C6_Body(body) ==
    /\ Len(requests) = 1
    /\ requests[1].method = "POST"
    /\ requests[1].url = <<API_URL, "/v1/generation/text-to-image">>
    /\ DOMAIN body = BodyKeys
    /\ body.performance_selection = "Quality"
    /\ body.aspect_ratios_selection = "1152*896"
    /\ body.image_number = 1
    /\ body.image_seed = -1
    /\ body.sharpness = 2
    /\ body.guidance_scale = 4
    /\ body.save_extension = "png"
    /\ body.prompt = args.prompt
    /\ body.negative_prompt =
           (IF args.negative_prompt.kind = "value"
            THEN args.negative_prompt.val ELSE "")
    /\ (args.style_selections.kind = "value" =>
            body.style_selections = args.style_selections.val)
    /\ (args.async_process.kind = "value" =>
            body.async_process = args.async_process.val)

(* C6 as stated: when style_selections is not given, the body's            *)
(* style_selections is ["Fooocus V2"] and async_process is true.           *)
C6_AsStated ==
    Called("text_to_image") =>
        LET body == requests[1].json[1]
        IN  /\ C6_Body(body)
            /\ (StyleNotGiven =>
                    /\ body.style_selections = <<"Fooocus V2">>
                    /\ body.async_process = TRUE)

(* C6 amended: when style_selections is not given, the body's              *)
(* style_selections is ["Fooocus V2"]; when async_process is not given,    *)
(* the body's async_process is true.                                       *)
C6_Amended ==
    Called("text_to_image") =>
        LET body == requests[1].json[1]
        IN  /\ C6_Body(body)
            /\ (StyleNotGiven => body.style_selections = <<"Fooocus V2">>)
            /\ (args.async_process.kind = "omitted" =>
                    body.async_process = TRUE)

\* a call without style_selections and with async_process=False, and one
\* with an empty list of styles, are both covered; the witness is the first
C6_Witness ==
    /\ Called("text_to_image")
    /\ args.style_selections.kind = "omitted"
    /\ args.async_process = [kind |-> "value", val |-> FALSE]
    /\ requests[1].json[1].style_selections = <<"Fooocus V2">>
    /\ requests[1].json[1].async_process = FALSE

----------------------------------------------------------------------------
(* C7: for every job_id, check_job_status issues exactly one GET to        *)
(* /v1/generation/query-job with that job_id as the job_id query parameter *)
(* and returns the decoded JSON of the answer unchanged; in main the       *)
(* job_id polled is the one the submit answer carries.                     *)

\* d is the dict of the members of the JSON object body
Decodes(d, body) ==
    /\ DOMAIN d = {body[i][1] : i \in DOMAIN body}
    /\ \A i \in DOMAIN body :
         (\A j \in DOMAIN body : body[j][1] = body[i][1] => j <= i) =>
             d[body[i][1]] = body[i][2]

PollRequest(job_id) ==
    [method |-> "GET", url |-> <<API_URL, "/v1/generation/query-job">>,
     json |-> << >>, params |-> <<[job_id |-> job_id]>>, headers |-> << >>]

C7_Poll ==
    /\ Called("check_job_status") =>
         /\ NumPoll = 1
         /\ \A i \in DOMAIN requests :
              IsPoll(requests[i]) => requests[i] = PollRequest(args.job_id)
    /\ (Called("check_job_status") /\ pc = "raised") => job_status = << >>
    /\ (pc = "returned" /\ args.fn = "check_job_status") =>
         /\ requests = <<PollRequest(args.job_id)>>
         /\ job_status # << >>
         /\ Decodes(job_status[1], received[1])
    /\ \A i \in DOMAIN requests :
         IsPoll(requests[i]) /\ response # << >> =>
             requests[i] = PollRequest(response[1]["job_id"])
    /\ (job_status # << >> /\ response # << >>) =>
         Decodes(job_status[1], received[2])

\* main has polled the job the submit answer named with a repeated key, and
\* the poll answer carried results
C7_Witness ==
    /\ pc = "done"
    /\ NumPoll = 1
    /\ response[1]["job_id"] = "j2"
    /\ requests[2].params = <<[job_id |-> "j2"]>>
    /\ HasResults

----------------------------------------------------------------------------
(* C8: after the single poll the manual-retry hint, the curl command with  *)
(* the job_id, is printed if and only if job_stage is PENDING or RUNNING,  *)
(* and no poll follows it; the downloads are decided by job_result being   *)
(* non-empty alone, so a PENDING or RUNNING answer with results gets both  *)
(* the hint and the downloads.                                             *)

HintLines == {i \in DOMAIN out : out[i][1] = "curl"}

Processing ==
    /\ job_status # << >>
    /\ Get(job_status[1], "job_stage") \in {<<"PENDING">>, <<"RUNNING">>}

C8_Hint ==
    /\ [](/\ (job_status = << >> => HintLines = {})
          /\ (job_status # << >> => (HintLines # {} <=> Processing))
          /\ Cardinality(HintLines) <= 1
          /\ \A i \in HintLines :
               out[i] = <<"curl", API_URL, "/v1/generation/query-job?job_id=",
                          response[1]["job_id"]>>
          /\ (HintLines # {} => NumPoll = 1)
          /\ (pc = "loop" \/ NumImage > 0 => HasResults)
          /\ (pc = "done" /\ HasResults =>
                idx = Len(job_status[1]["job_result"]))
          /\ (pc = "done" /\ job_status # << >> /\ ~HasResults =>
                NumImage = 0))
    /\ [][/\ (HintLines # {} =>
                \/ requests' = requests
                \/ IsImage(requests'[Len(requests')]))
          /\ (pc = "job_result" /\ HasResults => pc' = "loop")
          /\ (pc = "job_result" /\ ~HasResults => pc' = "done")]_vars

\* a RUNNING answer with a result: the hint was printed and the file saved
C8_Witness ==
    /\ pc = "done"
    /\ job_status # << >>
    /\ Get(job_status[1], "job_stage") = <<"RUNNING">>
    /\ HintLines # {}
    /\ Len(writes) = 1

----------------------------------------------------------------------------
(* C9: a transport or decode failure in submit, in poll or in an image GET *)
(* escapes main and ends the run there: after one in submit there is no    *)
(* poll, no directory creation and no file; after one in poll no download  *)
(* and no file; after one in the image GET of position k no file for k or  *)
(* a later position, the files of earlier positions remaining.             *)

FailedAt(step) == exc # << >> /\ exc[1].at = step

C9_Propagates ==
    /\ [](/\ (exc # << >> <=> pc = "failed")
          /\ (FailedAt("submit") =>
                /\ Len(requests) = 1
                /\ response = << >>
                /\ mkdirs = 0
                /\ writes = << >>
                /\ DOMAIN files = {})
          /\ (FailedAt("poll") =>
                /\ Len(requests) = 2
                /\ job_status = << >>
                /\ NumImage = 0
                /\ writes = << >>
                /\ DOMAIN files = {})
          /\ \A d \in DOMAIN downloads :
               downloads[d].raised =>
                   /\ FailedAt("download")
                   /\ d = Len(downloads)
                   /\ IsImage(requests[Len(requests)])
                   /\ \A w \in DOMAIN writes :
                        /\ writes[w].idx < downloads[d].idx
                        /\ writes[w].name \in DOMAIN files
                        /\ files[writes[w].name] = writes[w].content)
    /\ [][/\ pc # "failed"
          /\ \A n \in DOMAIN files : n \in DOMAIN files' /\ files'[n] = files[n]
          /\ (NumSubmit' > NumSubmit /\ response' = << >> => FailedAt("submit")')
          /\ (NumPoll' > NumPoll /\ job_status' = << >> => FailedAt("poll")')]_vars

\* the image GET of position 1 failed after the file of position 0 was saved
C9_Witness ==
    /\ FailedAt("download")
    /\ downloads[Len(downloads)].idx = 1
    /\ Len(writes) = 1
    /\ writes[1].idx = 0
    /\ files[writes[1].name] = writes[1].content

----------------------------------------------------------------------------
(* C10: outputs/ has been created (if absent) before any file is written:  *)
(* it is created whenever the submit answer carries a job_id, before the   *)
(* poll, hence also in runs that never write a file.                       *)

C10_DirFirst ==
    /\ [](/\ (writes # << >> => outputsExists /\ mkdirs = 1)
          /\ (HasJobId /\ pc # "job_id" => outputsExists /\ mkdirs = 1)
          /\ (NumPoll > 0 => outputsExists /\ mkdirs = 1)
          /\ (~HasJobId => mkdirs = 0))
    /\ [][/\ (Len(writes') > Len(writes) => outputsExists)
          /\ (NumPoll' > NumPoll => outputsExists /\ mkdirs = 1)
          /\ (outputsExists => outputsExists')]_vars

\* a finished run with the directory created and no file: the only download
\* was refused
C10_Witness ==
    /\ pc = "done"
    /\ mkdirs = 1
    /\ outputsExists
    /\ writes = << >>
    /\ Len(downloads) = 1
    /\ downloads[1].status_code = 404

====
